---- MODULE Spec2Model ----
(***************************************************************************)
(* Model of collaborators.go (datawire/collaborators): Main, the two       *)
(* cursor-paginated loops (getTeamFullnames, getRepos), the team parent    *)
(* walk, and the permission aggregation of getCollaborators.               *)
(*                                                                         *)
(* Strings of the program are TLA+ strings; "+" of Go is \o.  A Go map is  *)
(* a function whose DOMAIN is the set of keys present; reading an absent   *)
(* key gives the zero value (Lookup).  The GraphQL server is the           *)
(* environment: every response is chosen when the request is issued.       *)
(***************************************************************************)
EXTENDS Naturals, Sequences, FiniteSets, TLC

(***************************************************************************)
(* Bounds of the model.                                                    *)
(***************************************************************************)
MaxTeams == 4      \* teams of the organization
MaxRepos == 3      \* repositories of the organization
MaxPages == 3      \* pages of one paginated listing
MaxEdges == 2      \* collaborator edges of one repository response
MaxSources == 4    \* permission sources of one repository response, all edges
MaxWalk == MaxTeams + 2   \* iterations of one parent walk the model follows

(***************************************************************************)
(* Permission (collaborators.go 56-63) and Permission.String (79-90).      *)
(***************************************************************************)
PermNONE == 0
PermREAD == 1
PermWRITE == 2
PermADMIN == 3
Permission == {PermNONE, PermREAD, PermWRITE, PermADMIN}

PermString(p) ==
    CASE p = PermNONE -> "NONE"
      [] p = PermREAD -> "READ"
      [] p = PermWRITE -> "WRITE"
      [] p = PermADMIN -> "ADMIN"

(***************************************************************************)
(* The run's inputs: the organization queried, and what the server may     *)
(* name in a response.                                                     *)
(***************************************************************************)
orgname == "acme"
OtherOrg == "other"
Logins == <<"alice", "bob", "carol", "dave">>
RepoNames == <<"r1", "r2", "r3", "r4", "r5">>

\* source.Source of one permissionSources element: exactly one of Org, Team,
\* Repo is set (the three fragments cover GitHub's PermissionSource union).
OrgSource(o) == [Org |-> o, Team |-> "", Repo |-> ""]
TeamSource(t) == [Org |-> "", Team |-> t, Repo |-> ""]
RepoSource(r) == [Org |-> "", Team |-> "", Repo |-> r]

\* Team slugs a permission source may carry: "b" is a team of the
\* organization; "y" and "z" are slugs the team listing did not return.
SourceTeamSlugs == {"b", "y", "z"}

SourceKinds ==
    {OrgSource(orgname), OrgSource(OtherOrg)}
        \cup {TeamSource(t) : t \in SourceTeamSlugs}
        \cup {RepoSource(RepoNames[1])}

PermissionSources == [Permission : Permission, Source : SourceKinds]

\* The value of a loop variable before the loop's first iteration.
NoSource == [Permission |-> PermNONE, Source |-> [Org |-> "", Team |-> "", Repo |-> ""]]

(***************************************************************************)
(* Go values.                                                              *)
(***************************************************************************)
EmptyMap == [k \in {} |-> 0]
Nil == [nil |-> TRUE]                \* the nil map / nil slice of an error return
NoErr == [kind |-> "nil"]            \* a nil error

\* The zero value of a PageInfo struct.
NoPageInfo == [HasNextPage |-> FALSE, EndCursor |-> ""]

\* A variant of m[k] that gives the key itself when k is absent.
Lookup_KeyWhenAbsent(m, k) == IF k \in DOMAIN m THEN m[k] ELSE k

\* m[k] of a Go map: the zero value when k is absent.
Lookup(m, k) == IF k \in DOMAIN m THEN m[k] ELSE ""

\* m[k] = v of a Go map.
Store(m, k, v) == [x \in DOMAIN m \cup {k} |-> IF x = k THEN v ELSE m[x]]

VARIABLES
    pc,              \* where Main is
    token,           \* the environment's GH_TOKEN
    args,            \* paginated loop: the query arguments
    pageInfo,        \* paginated loop: PageInfo of the response decoded last
    served,          \* the pages the server has returned to the running loop
    teamSlugs,       \* getTeamFullnames: slugs in arrival order
    teamParents,     \* getTeamFullnames: slug -> parent slug
    j,               \* getTeamFullnames: teams the walk has finished
    full,            \* getTeamFullnames: path of the team being walked
    tip,             \* getTeamFullnames: where the walk of that team is
    nUp,             \* getTeamFullnames: iterations of the walk of that team
    teamFullnames,   \* Main: the map getTeamFullnames returned
    repos,           \* Main: the slice getRepos returned
    i,               \* Main: index of the repository loop (1-based)
    mainErr,         \* Main's return value once pc = "exit"
    ret,             \* getCollaborators: the map under construction
    nEdges,          \* getCollaborators: edges the outer loop has entered
    nSources,        \* getCollaborators: sources the inner loop has taken, all edges
    login,           \* getCollaborators: userInfo.Node.Login of this edge
    isOrgOwner,      \* getCollaborators: per-edge flag
    skippedSources,  \* getCollaborators: per-edge set of keys mapped to true
    source,          \* getCollaborators: the source the inner loop took last
    val,             \* getCollaborators: ret[key] as line 248 read it
    exists,          \* getCollaborators: whether line 248 found the key
    branch,          \* getCollaborators: how the last iteration ended
    collaborators,   \* Main: the map getCollaborators returned
    err,             \* Main: the error getCollaborators returned
    output,          \* Main: rows written to the tabwriter, not yet flushed
    stdout,          \* rows that reached os.Stdout
    calls            \* requests issued so far, per query

vars == <<pc, token, args, pageInfo, served, teamSlugs, teamParents, j, full,
          tip, nUp, teamFullnames, repos, i, mainErr, ret, nEdges, nSources, login,
          isOrgOwner, skippedSources, source, val, exists, branch,
          collaborators, err, output, stdout, calls>>

pageVars == <<args, pageInfo, served>>

walkVars == <<teamSlugs, teamParents, j, full, tip, nUp>>

aggVars == <<ret, nEdges, nSources, login, isOrgOwner, skippedSources, source,
             val, exists, branch>>

RepoURL(name) == "https://github.com/" \o orgname \o "/" \o name

RepoHandle(name) == [Name |-> name, URL |-> RepoURL(name)]

(***************************************************************************)
(* The server of the paginated listings.  The k-th team it lists has the   *)
(* slug TeamSlugList[k], the k-th repository the name RepoNames[k]; page k *)
(* ends with the cursor Cursors[k]; a request gets the first page when it  *)
(* carries no cursor and else the page after the one its cursor ends.      *)
(***************************************************************************)
TeamSlugList == <<"a", "b", "c", "d", "e">>
Cursors == <<"c1", "c2", "c3", "c4", "c5">>

\* A parent slug that no team of the listing has.
AbsentSlug == "x"

\* The slugs a parentTeam may name, and the parentTeam values: null or a team.
ParentSlugs == {TeamSlugList[k] : k \in 1..MaxTeams} \cup {AbsentSlug}

ParentTeams(slugs) == {Nil} \cup {[Slug |-> p] : p \in slugs}

RECURSIVE NodesServed(_)
NodesServed(pages) ==
    IF pages = <<>> THEN 0
    ELSE Len(Head(pages).Nodes) + NodesServed(Tail(pages))

PageAsked(a) ==
    IF "cursor" \in DOMAIN a /\ \E k \in DOMAIN Cursors : Cursors[k] = a.cursor
    THEN 1 + (CHOOSE k \in DOMAIN Cursors : Cursors[k] = a.cursor)
    ELSE 1

\* The pages the server may answer with, given the sequences of nodes it may
\* list next: the page asked for if it was served before, else a new one,
\* which is the last one at the latest when it is page MaxPages.
Responses(a, nodeSeqs) ==
    IF PageAsked(a) <= Len(served)
    THEN {served[PageAsked(a)]}
    ELSE {[Nodes |-> ns, HasNextPage |-> h, EndCursor |-> Cursors[PageAsked(a)]] :
            ns \in nodeSeqs,
            h \in IF PageAsked(a) < MaxPages THEN BOOLEAN ELSE {FALSE}}

\* What the server remembers after answering a request with page.
Serve(a, page) ==
    IF PageAsked(a) <= Len(served) THEN served ELSE Append(served, page)

\* The sequences of team nodes that may come next when n teams were listed.
TeamNodeSeqs(n, slugs) ==
    UNION {{[q \in 1..m |-> [Slug |-> TeamSlugList[n + q], ParentTeam |-> f[q]]] :
               f \in [1..m -> ParentTeams(slugs)]} :
           m \in 0..(MaxTeams - n)}

\* The sequences of repository nodes that may come next when n were listed.
RepoNodeSeqs(n) ==
    UNION {{[q \in 1..m |-> [Name |-> RepoNames[n + q],
                             URL |-> RepoURL(RepoNames[n + q]),
                             IsArchived |-> f[q]]] :
               f \in [1..m -> BOOLEAN]} :
           m \in 0..(MaxRepos - n)}

(***************************************************************************)
(* getTeamFullnames (collaborators.go 92-161).                             *)
(***************************************************************************)

\* Lines 126-128 and 300-302: the arguments before the first request.
FirstArgs == [k \in {"orgname"} |-> orgname]

\* A variant of the loop condition that stops after the first page.
MorePages_FirstOnly == "cursor" \notin DOMAIN args

\* Lines 131 and 304: the condition of the paginated loop.
MorePages == "cursor" \notin DOMAIN args \/ pageInfo.HasNextPage

\* A variant of lines 136 and 309 that forgets the cursor of the response.
NextArgs_NoCursor(a, page) == Store(a, "cursor", "")

\* Lines 136 and 309: the end cursor of the response is the next request's.
NextArgs(a, page) == Store(a, "cursor", page.EndCursor)

\* Lines 138-143: the nodes of one page, appended and recorded.
RECURSIVE StoreParents(_, _)
StoreParents(m, nodes) ==
    IF nodes = <<>> THEN m
    ELSE StoreParents(IF Head(nodes).ParentTeam # Nil
                      THEN Store(m, Head(nodes).Slug, Head(nodes).ParentTeam.Slug)
                      ELSE m,
                      Tail(nodes))

\* Lines 131-144: one iteration of the loop, the server answering with page.
FetchTeams(page) ==
    /\ pc = "teams_loop"
    /\ MorePages
    /\ calls' = [calls EXCEPT !.teams = @ + 1]
    /\ served' = Serve(args, page)
    /\ pageInfo' = [HasNextPage |-> page.HasNextPage, EndCursor |-> page.EndCursor]
    /\ args' = NextArgs(args, page)
    /\ teamSlugs' = teamSlugs \o [q \in DOMAIN page.Nodes |-> page.Nodes[q].Slug]
    /\ teamParents' = StoreParents(teamParents, page.Nodes)
    /\ UNCHANGED <<pc, token, j, full, tip, nUp, teamFullnames, repos, i,
                   mainErr, aggVars, collaborators, err, output, stdout>>

\* Lines 132-135 and Main 325-328: the request fails; getTeamFullnames
\* returns (nil, error) and Main returns the error.
FetchTeamsFail ==
    /\ pc = "teams_loop"
    /\ MorePages
    /\ calls' = [calls EXCEPT !.teams = @ + 1]
    /\ teamFullnames' = Nil
    /\ mainErr' = [kind |-> "graphql"]
    /\ pc' = "exit"
    /\ UNCHANGED <<token, pageVars, walkVars, repos, i, aggVars, collaborators,
                   err, output, stdout>>

\* Lines 131 and 146: the loop is over, the map of full names is made.  The
\* listing that the server was answering is over too, and args and rawTeams
\* are not read again.
TeamsListed ==
    /\ pc = "teams_loop"
    /\ ~MorePages
    /\ teamFullnames' = EmptyMap
    /\ j' = 0
    /\ pc' = "walk"
    /\ served' = <<>>
    /\ args' = EmptyMap
    /\ pageInfo' = NoPageInfo
    /\ UNCHANGED <<token, teamSlugs, teamParents, full, tip, nUp,
                   repos, i, mainErr, aggVars, collaborators, err, output,
                   stdout, calls>>

\* A variant of line 154 that puts the parent after the path.
JoinParent_After(parent, path) == path \o "/" \o parent

\* Line 154: the parent's slug goes in front of the path.
JoinParent(parent, path) == parent \o "/" \o path

\* A variant of line 153 that takes only a listed team for a parent.
IsParent_Listed(parent) == \E k \in DOMAIN teamSlugs : teamSlugs[k] = parent

\* Line 153: teamParents[tip] is a parent unless it is the zero value.
IsParent(parent) == parent # ""

\* A variant of line 150 with a depth guard: no chain is longer than the
\* number of teams.
WalkOver_DepthGuard == tip = "" \/ nUp > Len(teamSlugs)

\* Line 150: the walk of a team goes on while tip != "".
WalkOver == tip = ""

\* Lines 147-149: the walk of the next team begins.
WalkTeam ==
    /\ pc = "walk"
    /\ j < Len(teamSlugs)
    /\ full' = teamSlugs[j + 1]
    /\ tip' = teamSlugs[j + 1]
    /\ nUp' = 0
    /\ pc' = "walk_up"
    /\ UNCHANGED <<token, pageVars, teamSlugs, teamParents, j, teamFullnames,
                   repos, i, mainErr, aggVars, collaborators, err, output,
                   stdout, calls>>

\* Lines 150-156: one iteration of the walk, from tip to its parent.  The
\* model follows a walk for MaxWalk iterations.
WalkUp ==
    /\ pc = "walk_up"
    /\ ~WalkOver
    /\ nUp < MaxWalk
    /\ LET parent == Lookup(teamParents, tip)
       IN /\ full' = (IF IsParent(parent) THEN JoinParent(parent, full) ELSE full)
          /\ tip' = parent
    /\ nUp' = nUp + 1
    /\ UNCHANGED <<pc, token, pageVars, teamSlugs, teamParents, j,
                   teamFullnames, repos, i, mainErr, aggVars, collaborators,
                   err, output, stdout, calls>>

\* Lines 150 and 157: the walk of the team is over, its path is stored.
WalkDone ==
    /\ pc = "walk_up"
    /\ WalkOver
    /\ teamFullnames' = Store(teamFullnames, teamSlugs[j + 1], full)
    /\ j' = j + 1
    /\ pc' = "walk"
    /\ UNCHANGED <<token, pageVars, teamSlugs, teamParents, full, tip, nUp,
                   repos, i, mainErr, aggVars, collaborators, err, output,
                   stdout, calls>>

\* Lines 147 and 160, Main 325-329: every team is walked; getTeamFullnames
\* returns the map, its locals end, and Main calls getRepos (300-303).
ReturnTeamFullnames ==
    /\ pc = "walk"
    /\ j = Len(teamSlugs)
    /\ pc' = "repos_pages"
    /\ args' = FirstArgs
    /\ teamSlugs' = <<>>
    /\ teamParents' = EmptyMap
    /\ j' = 0
    /\ full' = ""
    /\ tip' = ""
    /\ nUp' = 0
    /\ repos' = <<>>
    /\ UNCHANGED <<token, pageInfo, served, teamFullnames, i, mainErr, aggVars,
                   collaborators, err, output, stdout, calls>>

(***************************************************************************)
(* getRepos (collaborators.go 268-319).                                    *)
(***************************************************************************)

\* A variant of lines 311-316 without the continue of line 313.
Handles_KeepAll(nodes) ==
    [q \in DOMAIN nodes |-> [Name |-> nodes[q].Name, URL |-> nodes[q].URL]]

\* Lines 311-316: the handles of the nodes that are not archived, in order.
RECURSIVE Handles(_)
Handles(nodes) ==
    IF nodes = <<>> THEN <<>>
    ELSE (IF Head(nodes).IsArchived THEN <<>>
          ELSE <<[Name |-> Head(nodes).Name, URL |-> Head(nodes).URL]>>)
         \o Handles(Tail(nodes))

\* Lines 304-317: one iteration of the loop, the server answering with page.
FetchRepos(page) ==
    /\ pc = "repos_pages"
    /\ MorePages
    /\ calls' = [calls EXCEPT !.repos = @ + 1]
    /\ served' = Serve(args, page)
    /\ pageInfo' = [HasNextPage |-> page.HasNextPage, EndCursor |-> page.EndCursor]
    /\ args' = NextArgs(args, page)
    /\ repos' = repos \o Handles(page.Nodes)
    /\ UNCHANGED <<pc, token, walkVars, teamFullnames, i, mainErr, aggVars,
                   collaborators, err, output, stdout>>

\* A variant of lines 305-308 that returns the handles gathered so far.
FetchReposFail_Partial ==
    /\ pc = "repos_pages"
    /\ MorePages
    /\ calls' = [calls EXCEPT !.repos = @ + 1]
    /\ mainErr' = [kind |-> "graphql"]
    /\ pc' = "exit"
    /\ UNCHANGED <<token, pageVars, walkVars, teamFullnames, repos, i, aggVars,
                   collaborators, err, output, stdout>>

\* Lines 305-308 and Main 329-332: the request fails; getRepos returns
\* (nil, error) and Main returns the error.
FetchReposFail ==
    /\ pc = "repos_pages"
    /\ MorePages
    /\ calls' = [calls EXCEPT !.repos = @ + 1]
    /\ repos' = <<>>
    /\ mainErr' = [kind |-> "graphql"]
    /\ pc' = "exit"
    /\ UNCHANGED <<token, pageVars, walkVars, teamFullnames, i, aggVars,
                   collaborators, err, output, stdout>>

\* Lines 304 and 318, Main 329-334: the loop is over; getRepos returns the
\* handles, its locals end, and Main begins its loop over them.
ReturnRepos ==
    /\ pc = "repos_pages"
    /\ ~MorePages
    /\ pc' = "repos_loop"
    /\ i' = 1
    /\ args' = EmptyMap
    /\ pageInfo' = NoPageInfo
    /\ served' = <<>>
    /\ UNCHANGED <<token, walkVars, teamFullnames, repos, mainErr, aggVars,
                   collaborators, err, output, stdout, calls>>

(***************************************************************************)
(* getCollaborators (collaborators.go 163-261).                            *)
(***************************************************************************)

\* strings.HasPrefix(s, prefix): some tail follows the prefix.  The tails are
\* everything the program puts after a key prefix.
KeyTails ==
    {"", orgname, OtherOrg} \cup {Logins[n] : n \in DOMAIN Logins}
        \cup {teamFullnames[t] : t \in DOMAIN teamFullnames}

HasPrefix(s, prefix) == \E tail \in KeyTails : s = prefix \o tail

\* The switch of lines 224-232.
SourceKey(src, userLogin) ==
    CASE src.Org # "" -> "org:" \o src.Org
      [] src.Team # "" -> "team:" \o Lookup(teamFullnames, src.Team)
      [] src.Repo # "" -> "user:" \o userLogin
      [] OTHER -> ""

\* A variant of line 249 that knows one arrival order only.
IsDuplicateWrite_WriteFirst(key, old, perm) ==
    HasPrefix(key, "team:") /\ old = PermWRITE /\ perm = PermADMIN

\* A variant of line 249 that takes every pair of values of a team key for
\* the duplicate.
IsDuplicateWrite_AnyTeamPair(key, old, perm) == HasPrefix(key, "team:")

\* A variant of line 249 that takes every pair of values for the duplicate.
IsDuplicateWrite_AnyPair(key, old, perm) == TRUE

\* The condition of line 249.  In Go && binds tighter than ||, so the
\* team prefix guards the first pair only.
IsDuplicateWrite(key, old, perm) ==
    \/ (HasPrefix(key, "team:") /\ (old = PermWRITE /\ perm = PermADMIN))
    \/ (old = PermADMIN /\ perm = PermWRITE)

\* A variant of line 233 with the organization written into the program, as
\* in the program's first version.
IsAmbient_Hardcoded(key) == key = "org:datawire"

\* Line 233: the source is the organization queried.
IsAmbient(key) == key = "org:" \o orgname

\* A variant of line 241 that forgets to look at the permission.
IsOwnerDuplicate_AnyPermission(key, perm) ==
    isOrgOwner /\ key \notin skippedSources

\* A variant of line 241 that does not look at skippedSources.
IsOwnerDuplicate_EveryTime(key, perm) == isOrgOwner /\ perm = PermADMIN

\* Line 241: the owner's duplicated ADMIN, first occurrence of the key.
IsOwnerDuplicate(key, perm) ==
    isOrgOwner /\ key \notin skippedSources /\ perm = PermADMIN

\* A variant of line 248 that forgets to compare the values.
IsMismatch_AnyPresent(key, perm) == key \in DOMAIN ret

\* Line 248: the key is present with another value.
IsMismatch(key, perm) == key \in DOMAIN ret /\ ret[key] # perm

MismatchErr(key, old, perm) ==
    [kind |-> "mismatch", reponame |-> repos[i].Name, collaborator |-> key,
     val |-> PermString(old), perm |-> PermString(perm)]

\* Main, line 338: the error of getCollaborators, wrapped with the URL.
WrapErr(url, e) == [kind |-> "wrapped", url |-> url, err |-> e]

\* Main, lines 340-348: the entries of the map whose key starts with
\* bucketName:, each as key=PERMISSION.  Lines 351-353 sort the bucket and
\* join it; the keys of a map are distinct, so the sorted bucket is given by
\* its set.
Bucket(m, bucketName) ==
    {k \o "=" \o PermString(m[k]) :
        k \in {x \in DOMAIN m : HasPrefix(x, bucketName \o ":")}}

\* Main, lines 349-355: the cells of one row.
Row(url, m) ==
    [URL |-> url, org |-> Bucket(m, "org"), team |-> Bucket(m, "team"),
     user |-> Bucket(m, "user")]

\* A variant of lines 349-355 that puts the newest row first.
WriteRow_First(rows, row) == <<row>> \o rows

\* A variant of lines 349-355 that writes nothing.
WriteRow_Dropped(rows, row) == rows

\* Main, lines 349-355: the row goes to the tabwriter, after the rows written.
WriteRow(rows, row) == Append(rows, row)

\* A variant of line 219 with the map kept from one call to the next.
FetchCollaborators_SharedMap ==
    /\ pc = "repos_loop"
    /\ i <= Len(repos)
    /\ calls' = [calls EXCEPT !.collaborators = @ + 1]
    /\ pc' = "scan"
    /\ ret' = (IF collaborators = Nil THEN EmptyMap ELSE collaborators)
    /\ nEdges' = 0
    /\ nSources' = 0
    /\ login' = ""
    /\ isOrgOwner' = FALSE
    /\ skippedSources' = {}
    /\ source' = NoSource
    /\ val' = PermNONE
    /\ exists' = FALSE
    /\ branch' = "none"
    /\ UNCHANGED <<teamFullnames, repos, i, mainErr, collaborators, err,
                   output, stdout>>
    /\ UNCHANGED <<token, pageVars, walkVars>>

\* Lines 334-336 and 185-219: Main calls getCollaborators for repository i
\* and the request succeeds: the scan of its edges begins on an empty map.
FetchCollaborators ==
    /\ pc = "repos_loop"
    /\ i <= Len(repos)
    /\ calls' = [calls EXCEPT !.collaborators = @ + 1]
    /\ pc' = "scan"
    /\ ret' = EmptyMap
    /\ nEdges' = 0
    /\ nSources' = 0
    /\ login' = ""
    /\ isOrgOwner' = FALSE
    /\ skippedSources' = {}
    /\ source' = NoSource
    /\ val' = PermNONE
    /\ exists' = FALSE
    /\ branch' = "none"
    /\ UNCHANGED <<teamFullnames, repos, i, mainErr, collaborators, err,
                   output, stdout>>
    /\ UNCHANGED <<token, pageVars, walkVars>>

\* A variant of lines 337-339 that goes on with the next repository.
FetchCollaboratorsFail_Continue ==
    /\ pc = "repos_loop"
    /\ i <= Len(repos)
    /\ calls' = [calls EXCEPT !.collaborators = @ + 1]
    /\ collaborators' = Nil
    /\ err' = [kind |-> "graphql"]
    /\ i' = i + 1
    /\ UNCHANGED <<pc, mainErr, teamFullnames, repos, aggVars, output, stdout>>
    /\ UNCHANGED <<token, pageVars, walkVars>>

\* Lines 216-218 and 337-339: the request fails (transport, GraphQL errors,
\* decoding); getCollaborators returns the error and Main returns it wrapped.
FetchCollaboratorsFail ==
    /\ pc = "repos_loop"
    /\ i <= Len(repos)
    /\ calls' = [calls EXCEPT !.collaborators = @ + 1]
    /\ collaborators' = Nil
    /\ err' = [kind |-> "graphql"]
    /\ mainErr' = WrapErr(repos[i].URL, err')
    /\ pc' = "exit"
    /\ UNCHANGED <<teamFullnames, repos, i, aggVars, output, stdout>>
    /\ UNCHANGED <<token, pageVars, walkVars>>

\* A variant of lines 220-222 with isOrgOwner and skippedSources declared
\* outside the loop over the edges.
NextEdge_SharedFlag ==
    /\ pc = "scan"
    /\ nEdges < MaxEdges
    /\ nEdges' = nEdges + 1
    /\ login' = Logins[nEdges + 1]
    /\ UNCHANGED <<pc, teamFullnames, repos, i, mainErr, ret, nSources, source,
                   val, exists, branch, collaborators, err, output, stdout,
                   calls, isOrgOwner, skippedSources>>
    /\ UNCHANGED <<token, pageVars, walkVars>>

\* Lines 220-222: the outer loop enters the next edge.
NextEdge ==
    /\ pc = "scan"
    /\ nEdges < MaxEdges
    /\ nEdges' = nEdges + 1
    /\ login' = Logins[nEdges + 1]
    /\ isOrgOwner' = FALSE
    /\ skippedSources' = {}
    /\ UNCHANGED <<pc, teamFullnames, repos, i, mainErr, ret, nSources, source,
                   val, exists, branch, collaborators, err, output, stdout,
                   calls>>
    /\ UNCHANGED <<token, pageVars, walkVars>>

\* Lines 223-258: one iteration of the inner loop, on the source src.  branch
\* names the statement that ended it: the continue of line 239 ("ambient"),
\* of line 246 ("skipped"), of line 252 ("resolved"), the return of line 254
\* ("mismatch"), or the assignment of line 257 ("stored").  val and exists are
\* the locals of line 248, zero when the iteration ends before it.  On a
\* mismatch getCollaborators returns (nil, error) and Main (337-339) returns
\* the error wrapped.
ScanSource(src) ==
    /\ pc = "scan"
    /\ nEdges > 0
    /\ nSources < MaxSources
    /\ nSources' = nSources + 1
    /\ source' = src
    /\ LET key == SourceKey(src.Source, login)
           perm == src.Permission
       IN IF IsAmbient(key)
          THEN /\ isOrgOwner' = (isOrgOwner \/ perm = PermADMIN)
               /\ branch' = "ambient"
               /\ val' = PermNONE
               /\ exists' = FALSE
               /\ UNCHANGED <<pc, ret, skippedSources, collaborators, err, mainErr>>
          ELSE IF IsOwnerDuplicate(key, perm)
          THEN /\ skippedSources' = skippedSources \cup {key}
               /\ branch' = "skipped"
               /\ val' = PermNONE
               /\ exists' = FALSE
               /\ UNCHANGED <<pc, ret, isOrgOwner, collaborators, err, mainErr>>
          ELSE /\ exists' = (key \in DOMAIN ret)
               /\ val' = (IF key \in DOMAIN ret THEN ret[key] ELSE PermNONE)
               /\ IF IsMismatch(key, perm)
                  THEN IF IsDuplicateWrite(key, ret[key], perm)
                       THEN /\ ret' = Store(ret, key, PermADMIN)
                            /\ branch' = "resolved"
                            /\ UNCHANGED <<pc, isOrgOwner, skippedSources,
                                           collaborators, err, mainErr>>
                       ELSE /\ collaborators' = Nil
                            /\ err' = MismatchErr(key, ret[key], perm)
                            /\ mainErr' = WrapErr(repos[i].URL, err')
                            /\ pc' = "exit"
                            /\ branch' = "mismatch"
                            /\ UNCHANGED <<ret, isOrgOwner, skippedSources>>
                  ELSE /\ ret' = Store(ret, key, perm)
                       /\ branch' = "stored"
                       /\ UNCHANGED <<pc, isOrgOwner, skippedSources,
                                      collaborators, err, mainErr>>
    /\ UNCHANGED <<teamFullnames, repos, i, nEdges, login, output, stdout, calls>>
    /\ UNCHANGED <<token, pageVars, walkVars>>

\* A variant of lines 333-356 that writes the row to os.Stdout, without the
\* tabwriter.
ReturnCollaborators_Unbuffered ==
    /\ pc = "scan"
    /\ collaborators' = ret
    /\ err' = NoErr
    /\ stdout' = Append(stdout, Row(repos[i].URL, collaborators'))
    /\ i' = i + 1
    /\ pc' = "repos_loop"
    /\ ret' = EmptyMap
    /\ nEdges' = 0
    /\ nSources' = 0
    /\ login' = ""
    /\ isOrgOwner' = FALSE
    /\ skippedSources' = {}
    /\ source' = NoSource
    /\ val' = PermNONE
    /\ exists' = FALSE
    /\ branch' = "none"
    /\ UNCHANGED <<teamFullnames, repos, mainErr, output, calls>>
    /\ UNCHANGED <<token, pageVars, walkVars>>

\* Line 260 and lines 340-356: both loops are over, getCollaborators returns
\* ret, and Main writes the row of repository i to the tabwriter, whose
\* cells stay buffered (every row has four cells, so no line ends a column
\* block).  The locals of getCollaborators end with the call.
ReturnCollaborators ==
    /\ pc = "scan"
    /\ collaborators' = ret
    /\ err' = NoErr
    /\ output' = WriteRow(output, Row(repos[i].URL, collaborators'))
    /\ i' = i + 1
    /\ pc' = "repos_loop"
    /\ ret' = EmptyMap
    /\ nEdges' = 0
    /\ nSources' = 0
    /\ login' = ""
    /\ isOrgOwner' = FALSE
    /\ skippedSources' = {}
    /\ source' = NoSource
    /\ val' = PermNONE
    /\ exists' = FALSE
    /\ branch' = "none"
    /\ UNCHANGED <<teamFullnames, repos, mainErr, stdout, calls>>
    /\ UNCHANGED <<token, pageVars, walkVars>>

\* Main, lines 357-359: the loop is over; Flush writes the buffered rows.
FlushOutput ==
    /\ pc = "repos_loop"
    /\ i > Len(repos)
    /\ stdout' = stdout \o output
    /\ output' = <<>>
    /\ mainErr' = NoErr
    /\ pc' = "exit"
    /\ UNCHANGED <<teamFullnames, repos, i, aggVars, collaborators, err, calls>>
    /\ UNCHANGED <<token, pageVars, walkVars>>

\* The variables a call has not touched yet, or resets when it ends.
Unused ==
    /\ pageInfo = NoPageInfo
    /\ served = <<>>
    /\ teamSlugs = <<>>
    /\ teamParents = EmptyMap
    /\ j = 0
    /\ full = ""
    /\ tip = ""
    /\ nUp = 0
    /\ mainErr = NoErr
    /\ ret = EmptyMap
    /\ nEdges = 0
    /\ nSources = 0
    /\ login = ""
    /\ isOrgOwner = FALSE
    /\ skippedSources = {}
    /\ source = NoSource
    /\ val = PermNONE
    /\ exists = FALSE
    /\ branch = "none"
    /\ collaborators = Nil
    /\ err = NoErr
    /\ output = <<>>
    /\ stdout = <<>>

(***************************************************************************)
(* SpecTeams: getTeamFullnames as Main calls it, for an organization whose *)
(* teams fit in one page: any teams, with any parents.                     *)
(***************************************************************************)
InitTeams ==
    /\ pc = "teams_loop"
    /\ token = "ghp_token"
    /\ args = FirstArgs
    /\ teamFullnames = Nil
    /\ repos = <<>>
    /\ i = 0
    /\ calls = [teams |-> 0, repos |-> 0, collaborators |-> 0]
    /\ Unused

FetchOnePageOfTeams ==
    /\ pc = "teams_loop"
    /\ \E page \in Responses(args, TeamNodeSeqs(NodesServed(served), ParentSlugs)) :
        ~page.HasNextPage /\ FetchTeams(page)

NextTeams ==
    \/ FetchOnePageOfTeams
    \/ FetchTeamsFail
    \/ TeamsListed
    \/ WalkTeam
    \/ WalkUp
    \/ WalkDone
    \/ ReturnTeamFullnames

SpecTeams == InitTeams /\ [][NextTeams]_vars

\* SpecTeamsLive: SpecTeams with the steps of the program taken as long as
\* one is possible (the program is one goroutine that always runs); whether a
\* request is answered or fails is the server's choice.
ProgramStepOfTeams == TeamsListed \/ WalkTeam \/ WalkUp \/ WalkDone \/ ReturnTeamFullnames

SpecTeamsLive == SpecTeams /\ WF_vars(ProgramStepOfTeams)

(***************************************************************************)
(* SpecPaging: the two paginated loops, each from its first request:       *)
(* getTeamFullnames as Main calls it, and getRepos as Main calls it for an *)
(* organization whose team listing was one empty page.  The listings have  *)
(* any number of pages of any sizes; a team is a root or a child of the    *)
(* first team.                                                             *)
(***************************************************************************)
InitRepos ==
    /\ pc = "repos_pages"
    /\ token = "ghp_token"
    /\ args = FirstArgs
    /\ teamFullnames = EmptyMap
    /\ repos = <<>>
    /\ i = 0
    /\ calls = [teams |-> 1, repos |-> 0, collaborators |-> 0]
    /\ Unused

FetchAnyTeams ==
    /\ pc = "teams_loop"
    /\ \E page \in Responses(args, TeamNodeSeqs(NodesServed(served), {TeamSlugList[1]})) :
        FetchTeams(page)

FetchAnyRepos ==
    /\ pc = "repos_pages"
    /\ \E page \in Responses(args, RepoNodeSeqs(NodesServed(served))) :
        FetchRepos(page)

NextPaging ==
    \/ FetchAnyTeams
    \/ FetchTeamsFail
    \/ TeamsListed
    \/ FetchAnyRepos
    \/ FetchReposFail
    \/ ReturnRepos

InitPaging == InitTeams \/ InitRepos

SpecPaging == InitPaging /\ [][NextPaging]_vars

(***************************************************************************)
(* SpecAgg: Main from the repository loop on, for an organization whose    *)
(* team listing returned a and its child b and whose repository listing    *)
(* returned one repository; the server may report any permission source.   *)
(***************************************************************************)
InitAgg ==
    /\ pc = "repos_loop"
    /\ token = "ghp_token"
    /\ args = EmptyMap
    /\ teamFullnames = [t \in {"a", "b"} |-> IF t = "a" THEN "a" ELSE "a/b"]
    /\ repos = <<RepoHandle(RepoNames[1])>>
    /\ i = 1
    /\ calls = [teams |-> 1, repos |-> 1, collaborators |-> 0]
    /\ Unused

ScanAnySource ==
    /\ pc = "scan"
    /\ \E src \in PermissionSources : ScanSource(src)

NextAgg ==
    \/ FetchCollaborators
    \/ FetchCollaboratorsFail
    \/ NextEdge
    \/ ScanAnySource
    \/ ReturnCollaborators
    \/ FlushOutput

SpecAgg == InitAgg /\ [][NextAgg]_vars

(***************************************************************************)
(* Spec: a whole run of Main (collaborators.go 321-360).  The organization *)
(* has the team a and its child b, listed over any pages, any              *)
(* repositories over any pages, and collaborators whose sources are among  *)
(* MainSources.                                                            *)
(***************************************************************************)

\* A variant of line 322 that never finds the token missing.
TokenMissing_Never == FALSE

\* Line 322: os.Getenv("GH_TOKEN") == "".
TokenMissing == token = ""

\* Lines 322-325: without a token Main returns an error; with one it calls
\* getTeamFullnames (126-130).
CheckToken ==
    /\ pc = "main"
    /\ IF TokenMissing
       THEN /\ mainErr' = [kind |-> "must set GH_TOKEN"]
            /\ pc' = "exit"
            /\ UNCHANGED args
       ELSE /\ args' = FirstArgs
            /\ pc' = "teams_loop"
            /\ UNCHANGED mainErr
    /\ UNCHANGED <<token, pageInfo, served, walkVars, teamFullnames, repos, i,
                   aggVars, collaborators, err, output, stdout, calls>>

MainTeams ==
    <<[Slug |-> TeamSlugList[1], ParentTeam |-> Nil],
      [Slug |-> TeamSlugList[2], ParentTeam |-> [Slug |-> TeamSlugList[1]]]>>

\* The nodes a next page may hold when n nodes of the listing all were served.
ListingSeqs(all, n) == {SubSeq(all, n + 1, m) : m \in n..Len(all)}

FetchMainTeams ==
    /\ pc = "teams_loop"
    /\ \E page \in Responses(args, ListingSeqs(MainTeams, NodesServed(served))) :
        FetchTeams(page)

\* A run's collaborators: the sources of the first collaborator of a
\* repository are repository-level READ and WRITE, in any number and order;
\* the collaborators after the first have no source.
MainSources ==
    [Permission : {PermREAD, PermWRITE}, Source : {RepoSource(RepoNames[1])}]

ScanMainSource ==
    /\ pc = "scan"
    /\ nEdges = 1
    /\ \E src \in MainSources : ScanSource(src)

Init ==
    /\ pc = "main"
    /\ token \in {"", "ghp_token"}
    /\ args = EmptyMap
    /\ teamFullnames = Nil
    /\ repos = <<>>
    /\ i = 0
    /\ calls = [teams |-> 0, repos |-> 0, collaborators |-> 0]
    /\ Unused

Next ==
    \/ CheckToken
    \/ FetchMainTeams
    \/ FetchTeamsFail
    \/ TeamsListed
    \/ WalkTeam
    \/ WalkUp
    \/ WalkDone
    \/ ReturnTeamFullnames
    \/ FetchAnyRepos
    \/ FetchReposFail
    \/ ReturnRepos
    \/ FetchCollaborators
    \/ FetchCollaboratorsFail
    \/ NextEdge
    \/ ScanMainSource
    \/ ReturnCollaborators
    \/ FlushOutput

Spec == Init /\ [][Next]_vars

(***************************************************************************)
(* Properties of getCollaborators, checked under SpecAgg.                  *)
(***************************************************************************)

\* A step that is one iteration of the inner loop; source' is its source.
ScanStep == pc = "scan" /\ nSources' = nSources + 1

\* The iteration of source' gets to line 248: its key is not the queried
\* organization and it is not the first ADMIN of a key for an owner.
ReachesMerge ==
    LET key == SourceKey(source'.Source, login)
    IN /\ key # "org:" \o orgname
       /\ ~(isOrgOwner /\ key \notin skippedSources /\ source'.Permission = PermADMIN)

\* C1: a source whose key is not team-scoped (a repository or organization
\* source) that reaches the merge step with a permission other than the one
\* stored under its key aborts the aggregation: a mismatch error, no map.
C1_NonTeamMismatchAborts ==
    [][(/\ ScanStep
        /\ ReachesMerge
        /\ source'.Source.Team = ""
        /\ SourceKey(source'.Source, login) \in DOMAIN ret
        /\ ret[SourceKey(source'.Source, login)] # source'.Permission)
          => (/\ pc' = "exit"
              /\ err'.kind = "mismatch"
              /\ collaborators' = Nil
              /\ mainErr' # NoErr)]_vars

\* C2: for a collaborator who is not an owner, a WRITE or ADMIN source of a
\* team key that already holds WRITE or ADMIN, one of the two being ADMIN,
\* leaves ADMIN under the key and raises no error.
C2_TeamWriteAdminResolves ==
    [][(/\ ScanStep
        /\ ~isOrgOwner
        /\ source'.Source.Team # ""
        /\ SourceKey(source'.Source, login) \in DOMAIN ret
        /\ {ret[SourceKey(source'.Source, login)], source'.Permission}
              \subseteq {PermWRITE, PermADMIN}
        /\ PermADMIN \in {ret[SourceKey(source'.Source, login)], source'.Permission})
          => (/\ pc' = "scan"
              /\ err' = err
              /\ mainErr' = mainErr
              /\ ret' = [ret EXCEPT ![SourceKey(source'.Source, login)] = PermADMIN])]_vars

\* C2 witness: a WRITE source of team b was merged for a non-owner and the
\* key, which held ADMIN, still holds ADMIN.
C2_Witness ==
    /\ pc = "scan"
    /\ ~isOrgOwner
    /\ source = [Permission |-> PermWRITE, Source |-> TeamSource("b")]
    /\ branch = "resolved"
    /\ exists /\ val = PermADMIN
    /\ ret["team:a/b"] = PermADMIN

\* C3: the key of the queried organization is in no map under construction,
\* in no map returned and in no row, whatever the sources carried.
C3_AmbientNeverRecorded ==
    LET ambient == "org:" \o orgname
        clean(rows) ==
            \A n \in DOMAIN rows : \A p \in Permission :
                (ambient \o "=" \o PermString(p)) \notin rows[n].org
    IN /\ ambient \notin DOMAIN ret
       /\ ambient \notin DOMAIN collaborators
       /\ clean(output)
       /\ clean(stdout)

\* C3 witness: a WRITE source of the queried organization was scanned as
\* the last source of the response, while the map already held an entry.
C3_Witness ==
    /\ pc = "scan"
    /\ source.Source = OrgSource(orgname)
    /\ source.Permission = PermWRITE
    /\ branch = "ambient"
    /\ nSources = MaxSources
    /\ ret # EmptyMap

\* C4: an ADMIN source of the queried organization makes the collaborator an
\* owner; from then on the first ADMIN source of any other key is discarded
\* (the map is unchanged, the key joins the skipped set), and a source that is
\* not ADMIN is merged.  After [(org:acme, ADMIN), (user:alice, ADMIN)] the
\* map is empty.
C4_OwnerBypass ==
    /\ [][ScanStep =>
            LET key == SourceKey(source'.Source, login)
                perm == source'.Permission
            IN /\ (key = "org:" \o orgname /\ perm = PermADMIN) => isOrgOwner'
               /\ (/\ isOrgOwner
                   /\ key # "org:" \o orgname
                   /\ perm = PermADMIN
                   /\ key \notin skippedSources)
                     => (/\ ret' = ret
                         /\ skippedSources' = skippedSources \cup {key}
                         /\ pc' = "scan")
               /\ (/\ isOrgOwner
                   /\ key # "org:" \o orgname
                   /\ perm # PermADMIN)
                     => (/\ skippedSources' = skippedSources
                         /\ key \notin DOMAIN ret
                              => (pc' = "scan" /\ ret' = Store(ret, key, perm))
                         /\ (key \in DOMAIN ret /\ ret[key] # perm)
                              => (pc' = "exit" \/ ret'[key] = PermADMIN))]_vars
    /\ []((/\ pc = "scan"
           /\ nEdges = 1
           /\ nSources = 2
           /\ isOrgOwner
           /\ source = [Permission |-> PermADMIN, Source |-> RepoSource(RepoNames[1])])
             => ret = EmptyMap)

\* C4 witness: alice is an owner, her user-level ADMIN was discarded and the
\* map is still empty after her two sources.
C4_Witness ==
    /\ pc = "scan"
    /\ nEdges = 1
    /\ nSources = 2
    /\ isOrgOwner
    /\ branch = "skipped"
    /\ skippedSources = {"user:alice"}
    /\ ret = EmptyMap

\* C5: a source whose key already holds the source's permission leaves the
\* map as it is and raises no error.
C5_Idempotent ==
    [][(/\ ScanStep
        /\ SourceKey(source'.Source, login) \in DOMAIN ret
        /\ ret[SourceKey(source'.Source, login)] = source'.Permission)
          => (/\ ret' = ret
              /\ pc' = "scan"
              /\ err' = err
              /\ mainErr' = mainErr)]_vars

\* C5 witness: a READ source was merged under a key that held READ.
C5_Witness ==
    /\ pc = "scan"
    /\ branch = "stored"
    /\ exists
    /\ val = PermREAD
    /\ source.Permission = PermREAD
    /\ ret[SourceKey(source.Source, login)] = PermREAD

(***************************************************************************)
(* Properties of the parent walk, checked under SpecTeams.                 *)
(***************************************************************************)

\* The slugs the listing returned.
ListedSlugs == {teamSlugs[k] : k \in DOMAIN teamSlugs}

\* The n-th ancestor of team t, "" when the chain of t ends before it.
RECURSIVE Ancestor(_, _)
Ancestor(t, n) ==
    IF n = 0 THEN t
    ELSE IF t \in DOMAIN teamParents THEN Ancestor(teamParents[t], n - 1)
    ELSE ""

\* Every parent a team names is a team of the listing.
AllParentsListed == \A t \in DOMAIN teamParents : teamParents[t] \in ListedSlugs

\* The chain of t ends: at a team without parent or at a slug not listed,
\* which it does within one step more than there are teams, or never.
ChainEnds(t) == Ancestor(t, Len(teamSlugs) + 1) = ""

\* No team is its own ancestor.
NoCycle == \A t \in ListedSlugs : ChainEnds(t)

\* The slugs from the root of t's chain down to t, joined by "/"; n bounds
\* the length of the chain.
RECURSIVE AncestorPath(_, _)
AncestorPath(t, n) ==
    IF t \notin DOMAIN teamParents \/ n = 0 THEN t
    ELSE AncestorPath(teamParents[t], n - 1) \o "/" \o t

\* C6: when no team is its own ancestor and every parent named is listed,
\* each team the walk has finished is mapped to the path from the root of its
\* chain down to itself (its own slug when it has no parent), a walk needs no
\* more iterations than there are teams, and once every team is walked the
\* map has an entry for exactly the slugs listed.
C6_FullPathIsAncestorChain ==
    (pc \in {"walk", "walk_up"} /\ AllParentsListed /\ NoCycle) =>
        /\ \A k \in 1..j :
              /\ teamSlugs[k] \in DOMAIN teamFullnames
              /\ teamFullnames[teamSlugs[k]] = AncestorPath(teamSlugs[k], Len(teamSlugs))
              /\ teamSlugs[k] \notin DOMAIN teamParents
                    => teamFullnames[teamSlugs[k]] = teamSlugs[k]
        /\ pc = "walk_up" => nUp <= Len(teamSlugs)
        /\ (pc = "walk" /\ j = Len(teamSlugs)) => DOMAIN teamFullnames = ListedSlugs

\* C6 witness: the chain a -> b -> c -> d, every team walked.
C6_Witness ==
    /\ pc = "walk"
    /\ j = 4
    /\ teamSlugs = <<"a", "b", "c", "d">>
    /\ teamParents = ("b" :> "a" @@ "c" :> "b" @@ "d" :> "c")
    /\ teamFullnames = ("a" :> "a" @@ "b" :> "a/b" @@ "c" :> "a/b/c" @@ "d" :> "a/b/c/d")

(***************************************************************************)
(* Properties of the paginated loops, checked under SpecPaging.            *)
(***************************************************************************)

\* The nodes of the pages, in page order and within-page order.
RECURSIVE AllNodes(_)
AllNodes(pages) ==
    IF pages = <<>> THEN <<>> ELSE Head(pages).Nodes \o AllNodes(Tail(pages))

\* The pages served are N >= 1 pages, hasNextPage true on all but the last.
OfferedToTheEnd ==
    /\ served # <<>>
    /\ \A k \in DOMAIN served : served[k].HasNextPage <=> k < Len(served)

\* A step that leaves the loop of getTeamFullnames, of getRepos.
TeamsLoopExit == pc = "teams_loop" /\ pc' = "walk"
ReposLoopExit == pc = "repos_pages" /\ pc' = "repos_loop"

\* C7: a paginated loop ends on N >= 1 pages served of which the last, and
\* only the last, reported hasNextPage = false; it has issued exactly N
\* requests and processed the nodes of the N pages, each once, in page order
\* and within-page order; after a page with hasNextPage = false no request
\* follows.
C7_PaginationExact ==
    /\ [][TeamsLoopExit =>
            /\ OfferedToTheEnd
            /\ calls.teams = Len(served)
            /\ Len(teamSlugs) = NodesServed(served)
            /\ teamSlugs = [q \in DOMAIN AllNodes(served) |-> AllNodes(served)[q].Slug]]_vars
    /\ [][ReposLoopExit =>
            /\ OfferedToTheEnd
            /\ calls.repos = Len(served)
            /\ repos = Handles(AllNodes(served))]_vars
    /\ [][(/\ pc \in {"teams_loop", "repos_pages"}
           /\ served # <<>>
           /\ ~served[Len(served)].HasNextPage) => calls' = calls]_vars
    /\ [][(pc \in {"teams_loop", "repos_pages"} /\ calls' # calls /\ pc' = pc)
            => /\ Len(served') = Len(served) + 1
               /\ pc = "teams_loop" => calls'.teams = Len(served')
               /\ pc = "repos_pages" => calls'.repos = Len(served')]_vars

\* C7 witness: the repository loop is about to end on three pages, the
\* second of size 0, after three requests.
C7_Witness ==
    /\ pc = "repos_pages"
    /\ Len(served) = 3
    /\ served[1].Nodes # <<>>
    /\ served[2].Nodes = <<>>
    /\ served[3].Nodes # <<>>
    /\ ~served[3].HasNextPage
    /\ calls.repos = 3
    /\ Len(repos) = 2

\* C8: the handles of getRepos are the repositories the pages listed as not
\* archived: every handle is one of them, each of them has exactly one
\* handle, the handles are in the order of the listing, and no archived
\* repository has a handle; the return hands the slice over as it is.
C8_ReposAreNonArchivedInOrder ==
    /\ [](pc = "repos_pages" =>
            LET nodes == AllNodes(served)
                at(k) == CHOOSE n \in DOMAIN nodes : nodes[n].Name = repos[k].Name
            IN /\ \A k \in DOMAIN repos :
                    \E n \in DOMAIN nodes :
                        /\ ~nodes[n].IsArchived
                        /\ repos[k] = [Name |-> nodes[n].Name, URL |-> nodes[n].URL]
               /\ \A n \in DOMAIN nodes :
                    Cardinality({k \in DOMAIN repos : repos[k].Name = nodes[n].Name})
                        = (IF nodes[n].IsArchived THEN 0 ELSE 1)
               /\ \A k1, k2 \in DOMAIN repos : k1 < k2 => at(k1) < at(k2))
    /\ [][ReposLoopExit => repos' = repos]_vars

\* C8 witness: the listing is over; its first repository (first of page 1)
\* and its third (alone on page 2) are archived, and the slice holds the
\* second only.
C8_Witness ==
    /\ pc = "repos_pages"
    /\ Len(served) = 2
    /\ ~served[2].HasNextPage
    /\ Len(served[1].Nodes) = 2
    /\ served[1].Nodes[1].IsArchived
    /\ ~served[1].Nodes[2].IsArchived
    /\ Len(served[2].Nodes) = 1
    /\ served[2].Nodes[1].IsArchived
    /\ repos = <<RepoHandle(RepoNames[2])>>

(***************************************************************************)
(* Properties of a whole run, checked under Spec.                          *)
(***************************************************************************)

\* A step in which getCollaborators returns an error for repository i.
CollaboratorsError ==
    /\ pc \in {"repos_loop", "scan"}
    /\ err' # NoErr
    /\ err' # err

\* C9: when the request or the aggregation of the k-th repository fails,
\* Main returns an error (that of the repository, under its URL) and ends;
\* exactly k collaborator requests were issued, one per repository up to the
\* k-th, and none is issued afterwards.
C9_FailFast ==
    /\ [][CollaboratorsError =>
            /\ pc' = "exit"
            /\ mainErr' = [kind |-> "wrapped", url |-> repos[i].URL, err |-> err']
            /\ i' = i
            /\ calls'.collaborators = i]_vars
    /\ [][pc = "exit" => calls' = calls]_vars
    /\ [](pc = "repos_loop" => calls.collaborators = i - 1)
    /\ [](pc = "scan" => calls.collaborators = i)
    /\ []((pc = "exit" /\ err # NoErr) => (mainErr # NoErr /\ calls.collaborators = i))

\* C9 witness: the aggregation of the second of three repositories ended in
\* a mismatch; Main returned after two collaborator requests.
C9_Witness ==
    /\ pc = "exit"
    /\ Len(repos) = 3
    /\ i = 2
    /\ err.kind = "mismatch"
    /\ mainErr.kind = "wrapped"
    /\ calls.collaborators = 2

\* The cells of a row, other than the URL.
Cells(row) == row.org \cup row.team \cup row.user

\* C10: each return of getCollaborators adds one row, after the rows of the
\* repositories before it; the row carries the URL of that repository and
\* the entries of the map returned for it; a run that returns no error has
\* emitted one row per handle of getRepos, in the order of the handles.
C10_OneRowPerRepoInOrder ==
    /\ [][(pc = "scan" /\ pc' = "repos_loop") =>
            /\ Len(output) = i - 1
            /\ Len(output') = i
            /\ \A k \in DOMAIN output : output'[k] = output[k]
            /\ output'[i].URL = repos[i].URL
            /\ Cells(output'[i]) = {key \o "=" \o PermString(ret[key]) : key \in DOMAIN ret}
            /\ collaborators' = ret]_vars
    /\ []((pc = "exit" /\ mainErr = NoErr) =>
            /\ output = <<>>
            /\ Len(stdout) = Len(repos)
            /\ \A k \in DOMAIN repos : stdout[k].URL = repos[k].URL)
    /\ [](pc # "exit" => stdout = <<>>)

\* C10 witness: a run without error over the first and the third repository
\* listed (the second is archived); alice has READ on the first and WRITE on
\* the third, and the two rows say so, in that order.
C10_Witness ==
    /\ pc = "exit"
    /\ mainErr = NoErr
    /\ repos = <<RepoHandle(RepoNames[1]), RepoHandle(RepoNames[3])>>
    /\ Len(stdout) = 2
    /\ stdout[1] = [URL |-> RepoURL(RepoNames[1]), org |-> {}, team |-> {},
                    user |-> {"user:alice=READ"}]
    /\ stdout[2] = [URL |-> RepoURL(RepoNames[3]), org |-> {}, team |-> {},
                    user |-> {"user:alice=WRITE"}]

(***************************************************************************)
(* More properties of a whole run, checked under Spec.                     *)
(***************************************************************************)

\* C11: when GH_TOKEN is empty Main returns an error, and no request of any
\* of the three queries is ever issued.
C11_NoTokenNoRequest ==
    token = "" =>
        /\ calls = [teams |-> 0, repos |-> 0, collaborators |-> 0]
        /\ pc \in {"main", "exit"}
        /\ pc = "exit" => mainErr = [kind |-> "must set GH_TOKEN"]

\* C11 witness: Main has returned for an empty token.
C11_Witness ==
    /\ token = ""
    /\ pc = "exit"
    /\ mainErr # NoErr
    /\ calls.teams = 0

(***************************************************************************)
(* More properties of getCollaborators, checked under SpecAgg.             *)
(***************************************************************************)

\* The branches of an iteration that got to the merge of lines 248-257.
MergeBranches == {"stored", "resolved", "mismatch"}

\* C12: for an owner, an ADMIN source whose key is in the skipped set already
\* is not discarded again: the iteration gets to the merge, where an absent
\* key is stored with ADMIN, and the skipped set stays as it is.  After
\* [(org:acme, ADMIN), (team b, ADMIN), (team b, ADMIN)] the map is
\* {team:a/b = ADMIN}.
C12_SuppressedOncePerKey ==
    /\ [][(/\ ScanStep
           /\ isOrgOwner
           /\ source'.Permission = PermADMIN
           /\ SourceKey(source'.Source, login) # "org:" \o orgname
           /\ SourceKey(source'.Source, login) \in skippedSources)
             => (/\ branch' \in MergeBranches
                 /\ skippedSources' = skippedSources
                 /\ exists' = (SourceKey(source'.Source, login) \in DOMAIN ret)
                 /\ SourceKey(source'.Source, login) \notin DOMAIN ret
                       => ret' = Store(ret, SourceKey(source'.Source, login), PermADMIN))]_vars
    /\ []((/\ pc = "scan"
           /\ nEdges = 1
           /\ nSources = 3
           /\ isOrgOwner
           /\ skippedSources = {"team:a/b"}
           /\ source = [Permission |-> PermADMIN, Source |-> TeamSource("b")]
           /\ branch # "skipped")
             => (branch = "stored" /\ ret = ("team:a/b" :> PermADMIN)))

\* C12 witness: alice is an owner; the first ADMIN of team b was discarded
\* and the second was stored.
C12_Witness ==
    /\ pc = "scan"
    /\ nEdges = 1
    /\ nSources = 3
    /\ isOrgOwner
    /\ skippedSources = {"team:a/b"}
    /\ source = [Permission |-> PermADMIN, Source |-> TeamSource("b")]
    /\ branch = "stored"
    /\ ~exists
    /\ ret = ("team:a/b" :> PermADMIN)

\* C13: the flag and the skipped set belong to one edge.  The flag turns true
\* only in an iteration on an ADMIN source of the queried organization, it
\* stays true to the end of the edge, and a new edge starts with the flag
\* false and the set empty; a source is discarded only while the flag is
\* true; while it is false every source of another key gets to the merge and
\* the set does not change.
C13_OwnerStateIsPerCollaborator ==
    /\ [][(isOrgOwner' /\ ~isOrgOwner) =>
            /\ ScanStep
            /\ source' = [Permission |-> PermADMIN, Source |-> OrgSource(orgname)]]_vars
    /\ [][(isOrgOwner /\ ScanStep) => isOrgOwner']_vars
    /\ [][nEdges' # nEdges => (~isOrgOwner' /\ skippedSources' = {})]_vars
    /\ [][(ScanStep /\ branch' = "skipped") => isOrgOwner]_vars
    /\ [][(/\ ScanStep
           /\ ~isOrgOwner
           /\ SourceKey(source'.Source, login) # "org:" \o orgname)
             => (/\ branch' \in MergeBranches
                 /\ skippedSources' = skippedSources
                 /\ ~isOrgOwner')]_vars

\* C13 witness: alice is an owner whose repository-level ADMIN was
\* discarded; bob, the next collaborator, is none, and his repository-level
\* ADMIN was stored.
C13_Witness ==
    /\ pc = "scan"
    /\ nEdges = 2
    /\ nSources = 3
    /\ login = "bob"
    /\ ~isOrgOwner
    /\ skippedSources = {}
    /\ source = [Permission |-> PermADMIN, Source |-> RepoSource(RepoNames[1])]
    /\ branch = "stored"
    /\ ret = ("user:bob" :> PermADMIN)

\* C14: a source of a team key that reaches the merge with a permission
\* other than the one stored under the key, the two not being WRITE and ADMIN,
\* aborts the aggregation with the mismatch error, whichever of the two came
\* first and whichever collaborators they belong to; the stored value may be
\* the ADMIN that a WRITE/ADMIN pair left.
C14_TeamMismatchAborts ==
    [][(/\ ScanStep
        /\ ReachesMerge
        /\ source'.Source.Team # ""
        /\ SourceKey(source'.Source, login) \in DOMAIN ret
        /\ ret[SourceKey(source'.Source, login)] # source'.Permission
        /\ {ret[SourceKey(source'.Source, login)], source'.Permission}
              # {PermWRITE, PermADMIN})
          => (/\ pc' = "exit"
              /\ branch' = "mismatch"
              /\ err' = [kind |-> "mismatch", reponame |-> repos[i].Name,
                         collaborator |-> SourceKey(source'.Source, login),
                         val |-> PermString(ret[SourceKey(source'.Source, login)]),
                         perm |-> PermString(source'.Permission)]
              /\ collaborators' = Nil
              /\ mainErr' # NoErr)]_vars

\* C14 witness: team b held ADMIN after two sources of alice; a READ source
\* of team b, of bob, ended the aggregation.
C14_Witness ==
    /\ pc = "exit"
    /\ branch = "mismatch"
    /\ nEdges = 2
    /\ nSources = 3
    /\ login = "bob"
    /\ source = [Permission |-> PermREAD, Source |-> TeamSource("b")]
    /\ exists
    /\ val = PermADMIN
    /\ ret = ("team:a/b" :> PermADMIN)
    /\ err.kind = "mismatch"

(***************************************************************************)
(* More properties of the paginated loops, checked under SpecPaging.       *)
(***************************************************************************)

\* A step that issues a request of a paginated loop.
PageRequest == pc \in {"teams_loop", "repos_pages"} /\ calls' # calls

\* C15: the first request of a loop carries the organization and no cursor;
\* every later request carries the end cursor of the page served last, and
\* that page said hasNextPage = true.
C15_CursorProtocol ==
    [][PageRequest =>
          IF served = <<>>
          THEN args = [k \in {"orgname"} |-> orgname]
          ELSE /\ "cursor" \in DOMAIN args
               /\ args.cursor = served[Len(served)].EndCursor
               /\ args.orgname = orgname
               /\ served[Len(served)].HasNextPage]_vars

\* C15 witness: the third request of the repository loop was answered.
C15_Witness ==
    /\ pc = "repos_pages"
    /\ calls.repos = 3
    /\ Len(served) = 3
    /\ served[1].EndCursor # served[2].EndCursor
    /\ args.cursor = served[3].EndCursor

\* C16: when the request of page k fails the loop ends at once: k requests
\* were issued, one per page, none follows, Main has the error, and the
\* function returns nil in place of what pages 1..k-1 held.
C16_PageFailureStops ==
    /\ [][(pc = "teams_loop" /\ pc' = "exit") =>
            /\ calls'.teams = Len(served) + 1
            /\ served' = served
            /\ teamFullnames' = Nil
            /\ mainErr' = [kind |-> "graphql"]]_vars
    /\ [][(pc = "repos_pages" /\ pc' = "exit") =>
            /\ calls'.repos = Len(served) + 1
            /\ served' = served
            /\ repos' = <<>>
            /\ mainErr' = [kind |-> "graphql"]]_vars
    /\ [][pc = "exit" => (calls' = calls /\ repos' = repos)]_vars

\* C16 witness: the third request of the repository loop failed after two
\* pages that held a repository not archived; nothing is returned.
C16_Witness ==
    /\ pc = "exit"
    /\ mainErr = [kind |-> "graphql"]
    /\ calls.repos = 3
    /\ Len(served) = 2
    /\ served[1].Nodes # <<>>
    /\ ~served[1].Nodes[1].IsArchived
    /\ repos = <<>>

(***************************************************************************)
(* More properties of the parent walk, checked under SpecTeams and         *)
(* SpecTeamsLive.                                                          *)
(***************************************************************************)

\* C17: a parent slug that no team of the listing has ends the walk like a
\* root: a finished team T whose parent X is not listed is mapped to X/T, the
\* walk of such a team takes two iterations, a chain that ends at X is
\* mapped to the path that starts with X, and once every team is walked no
\* error is set and every slug listed has its entry.
C17_AbsentParentIsRoot ==
    pc \in {"walk", "walk_up"} =>
        /\ \A k \in 1..j :
              LET t == teamSlugs[k]
              IN /\ t \in DOMAIN teamFullnames
                 /\ (t \in DOMAIN teamParents /\ teamParents[t] \notin ListedSlugs)
                       => teamFullnames[t] = teamParents[t] \o "/" \o t
                 /\ ChainEnds(t)
                       => teamFullnames[t] = AncestorPath(t, Len(teamSlugs))
        /\ (/\ pc = "walk_up"
            /\ teamSlugs[j + 1] \in DOMAIN teamParents
            /\ teamParents[teamSlugs[j + 1]] \notin ListedSlugs) => nUp <= 2
        /\ (pc = "walk" /\ j = Len(teamSlugs))
              => (mainErr = NoErr /\ DOMAIN teamFullnames = ListedSlugs)

\* C17 witness: a names the parent x, which is not listed, and b names a;
\* both are walked.
C17_Witness ==
    /\ pc = "walk"
    /\ j = 2
    /\ teamSlugs = <<"a", "b">>
    /\ teamParents = ("a" :> AbsentSlug @@ "b" :> "a")
    /\ teamFullnames = ("a" :> "x/a" @@ "b" :> "x/a/b")
    /\ mainErr = NoErr

\* C18: when no team is its own ancestor every walk ends and
\* getTeamFullnames returns; a walk that is on a chain that does not end
\* stays on it, with tip never "", so the walk of that team does not end, its
\* path is not stored, and getTeamFullnames does not return.
C18_WalkTerminatesIffAcyclic ==
    /\ [](((pc \in {"walk", "walk_up"}) /\ NoCycle) => <>(pc = "repos_pages"))
    /\ []((pc = "walk_up" /\ ~ChainEnds(teamSlugs[j + 1]))
            => (tip # "" /\ ~ChainEnds(tip)))
    /\ [][(pc = "walk_up" /\ pc' = "walk") => ChainEnds(teamSlugs[j + 1])]_vars
    /\ [][(pc = "walk" /\ pc' = "repos_pages") => NoCycle]_vars
    /\ []((pc \in {"walk", "walk_up"} /\ ~NoCycle) => [](pc # "repos_pages"))

\* C18 witness: the only team is its own parent; its walk has gone round as
\* often as the model follows it and is not over.
C18_Witness ==
    /\ pc = "walk_up"
    /\ teamSlugs = <<"a">>
    /\ teamParents = ("a" :> "a")
    /\ nUp = MaxWalk
    /\ tip = "a"
    /\ teamFullnames = EmptyMap

(***************************************************************************)
(* Sequencing and independence in a whole run, checked under Spec.         *)
(***************************************************************************)

\* C19: a request for a page of teams is issued before any request for
\* repositories or collaborators, a request for a page of repositories after
\* the team map is made and before any request for collaborators, and the
\* request for the collaborators of repository i when the rows of the i - 1
\* repositories before it are written and no other repository is in work; the
\* repositories are taken one by one in the order of the slice.
C19_RunSequencing ==
    /\ [][calls'.teams # calls.teams =>
            /\ pc = "teams_loop"
            /\ calls.repos = 0
            /\ calls.collaborators = 0]_vars
    /\ [][calls'.repos # calls.repos =>
            /\ pc = "repos_pages"
            /\ teamFullnames # Nil
            /\ calls.teams > 0
            /\ calls.collaborators = 0]_vars
    /\ [][calls'.collaborators # calls.collaborators =>
            /\ pc = "repos_loop"
            /\ calls.repos > 0
            /\ i \in DOMAIN repos
            /\ calls'.collaborators = i
            /\ Len(output) = i - 1
            /\ \A k \in DOMAIN output : output[k].URL = repos[k].URL]_vars
    /\ [][i' # i => (i' = i + 1 /\ Len(output') = i) \/ (pc = "repos_pages" /\ i' = 1)]_vars

\* C19 witness: after two requests for teams and two for repositories the
\* second repository is in work and the row of the first is written.
C19_Witness ==
    /\ pc = "scan"
    /\ i = 2
    /\ calls = [teams |-> 2, repos |-> 2, collaborators |-> 2]
    /\ Len(output) = 1
    /\ output[1].URL = repos[1].URL
    /\ nSources = 1

\* C20: a call of getCollaborators begins with the empty map, the flag false
\* and the skipped set empty; no step of the repository loop changes the team
\* map; and the map under construction is what the sources of this call
\* make it (empty before the first, then alice's entry with the permission of
\* the source merged last), whatever rows were written for the repositories
\* before.
C20_PerRepositoryIndependence ==
    /\ [][(pc = "repos_loop" /\ pc' = "scan") =>
            (ret' = EmptyMap /\ ~isOrgOwner' /\ skippedSources' = {})]_vars
    /\ [][(pc \in {"repos_loop", "scan"}) => (teamFullnames' = teamFullnames)]_vars
    /\ [](pc = "scan" =>
            ret = (IF nSources = 0 THEN EmptyMap
                   ELSE ("user:" \o Logins[1]) :> source.Permission))
    /\ [][(pc = "scan" /\ pc' = "repos_loop") =>
            collaborators' = (IF nSources = 0 THEN EmptyMap
                              ELSE ("user:" \o Logins[1]) :> source.Permission)]_vars

\* C20 witness: alice has WRITE on the first repository, whose row is
\* written, and the map of the second holds her READ alone.
C20_Witness ==
    /\ pc = "scan"
    /\ i = 2
    /\ Len(output) = 1
    /\ output[1].user = {"user:alice=WRITE"}
    /\ collaborators = ("user:alice" :> PermWRITE)
    /\ source = [Permission |-> PermREAD, Source |-> RepoSource(RepoNames[1])]
    /\ branch = "stored"
    /\ ~exists
    /\ ret = ("user:alice" :> PermREAD)
    /\ teamFullnames = ("a" :> "a" @@ "b" :> "a/b")

(***************************************************************************)
(* The output of a whole run, checked under Spec.                          *)
(***************************************************************************)

\* C21: os.Stdout gets rows in one step only, the flush after the loop,
\* which writes the rows of all repositories; until then it has none, and a
\* run that ends with an error has written none, whatever rows the
\* tabwriter holds for the repositories before the failing one.
C21_NothingBeforeFlush ==
    /\ [][stdout' # stdout =>
            /\ pc = "repos_loop"
            /\ i = Len(repos) + 1
            /\ stdout = <<>>
            /\ stdout' = output
            /\ Len(output) = Len(repos)
            /\ pc' = "exit"
            /\ mainErr' = NoErr]_vars
    /\ []((pc = "exit" /\ mainErr # NoErr) => stdout = <<>>)
    /\ [][(pc \in {"repos_loop", "scan"} /\ pc' = "exit" /\ mainErr' # NoErr)
            => (stdout' = <<>> /\ output' = output /\ Len(output) = i - 1)]_vars

\* C21 witness: the third repository failed when the rows of the first two
\* were written to the tabwriter; nothing is on os.Stdout.
C21_Witness ==
    /\ pc = "exit"
    /\ mainErr # NoErr
    /\ mainErr.kind = "wrapped"
    /\ i = 3
    /\ Len(output) = 2
    /\ stdout = <<>>

(***************************************************************************)
(* The entries of the map, checked under SpecAgg.                          *)
(***************************************************************************)

\* C22: a call begins with the empty map; only an iteration of the inner
\* loop changes it, and only under the key of its source, which is not the
\* queried organization, to the permission of its source or, the key held
\* ADMIN already, leaving ADMIN; the map returned is the map so made.  So
\* every key returned is the key of a source of this call, not ambient, and
\* its value the permission of a source of that key.
C22_NoInventedEntries ==
    /\ [][(pc = "repos_loop" /\ pc' = "scan") => ret' = EmptyMap]_vars
    /\ [][(pc = "scan" /\ ret' # ret) => (ScanStep \/ pc' = "repos_loop")]_vars
    /\ [][(ScanStep /\ pc' = "scan") =>
            \A k \in DOMAIN ret' :
                \/ (k \in DOMAIN ret /\ ret'[k] = ret[k])
                \/ (/\ k # "org:" \o orgname
                    /\ k = (CASE source'.Source.Org # "" -> "org:" \o source'.Source.Org
                              [] source'.Source.Team # "" ->
                                    "team:" \o (IF source'.Source.Team \in DOMAIN teamFullnames
                                                THEN teamFullnames[source'.Source.Team]
                                                ELSE "")
                              [] OTHER -> "user:" \o login)
                    /\ ret'[k] = source'.Permission)]_vars
    /\ [][(pc = "scan" /\ pc' = "repos_loop") => collaborators' = ret]_vars
    /\ [](pc = "scan" => "org:" \o orgname \notin DOMAIN ret)

\* C22 witness: the map returned holds other's READ, from a source of alice,
\* and bob's WRITE, from a repository source of bob.
C22_Witness ==
    /\ pc = "repos_loop"
    /\ i = 2
    /\ err = NoErr
    /\ collaborators = ("org:other" :> PermREAD @@ "user:bob" :> PermWRITE)

\* A team source whose slug the team map does not have.
UnknownTeam(src) == src.Source.Team # "" /\ src.Source.Team \notin DOMAIN teamFullnames

\* C23: a source of a team the team map does not have is merged under the
\* key "team:", whatever its slug, and that alone is no error: an absent key
\* is stored, an equal value stays, WRITE and ADMIN leave ADMIN, and every
\* other pair of values is the mismatch of the key "team:".
C23_UnknownTeamsShareOneKey ==
    [][(/\ ScanStep
        /\ UnknownTeam(source')
        /\ ~(isOrgOwner /\ "team:" \notin skippedSources /\ source'.Permission = PermADMIN))
          => IF "team:" \notin DOMAIN ret
             THEN /\ ret' = [k \in DOMAIN ret \cup {"team:"} |->
                               IF k = "team:" THEN source'.Permission ELSE ret[k]]
                  /\ pc' = "scan"
                  /\ err' = NoErr
             ELSE IF ret["team:"] = source'.Permission
             THEN ret' = ret /\ pc' = "scan" /\ err' = NoErr
             ELSE IF {ret["team:"], source'.Permission} = {PermWRITE, PermADMIN}
             THEN /\ ret' = [ret EXCEPT !["team:"] = PermADMIN]
                  /\ pc' = "scan"
                  /\ err' = NoErr
             ELSE /\ pc' = "exit"
                  /\ err'.kind = "mismatch"
                  /\ err'.collaborator = "team:"]_vars

\* C23 witness: alice has WRITE through a team the map does not have; bob's
\* READ through team z, which it does not have either, is a mismatch.
C23_Witness ==
    /\ pc = "exit"
    /\ branch = "mismatch"
    /\ nEdges = 2
    /\ nSources = 2
    /\ source = [Permission |-> PermREAD, Source |-> TeamSource("z")]
    /\ exists
    /\ val = PermWRITE
    /\ ret = ("team:" :> PermWRITE)
    /\ err.collaborator = "team:"

====
